---- MODULE Spec2Model ----
(***************************************************************************)
(* The draft server of src/server/server.py as a state machine.            *)
(*                                                                         *)
(* The module globals of server.py are the variables.  Python lists are    *)
(* sequences; an index i of the code is position i + 1 here.  An optional  *)
(* request field is None (<<>>) or Some(v) (<<v>>); a missing player name  *)
(* is "" and a missing card name is 0 (both are falsy in the code).  A     *)
(* card is modelled by its name: all_cards holds pairwise distinct names.  *)
(* decks_by_name is total over Names: the code reads a deck only through   *)
(* get(name, []) and setdefault(name, []), so a name without a key is a    *)
(* name with the empty deck.                                               *)
(*                                                                         *)
(* Spec     runs every handler as one step (requests served one at a time).*)
(* SpecConc runs click and claim_pack on NThreads worker threads that are  *)
(*          scheduled between the statements that touch the globals:       *)
(*          server.py takes no lock and socketio.run serves each request   *)
(*          on a thread of its own.                                        *)
(* SpecPresence runs every handler as one step and adds the socket        *)
(*          handlers on_connect / on_disconnect and the start by host_go.  *)
(* SpecSet  runs the handlers of one client on sessions started with a     *)
(*          set: the packs are the card files of preselected pack folders. *)
(* SpecGen  calls the fallback generator alone, on every pool, number of   *)
(*          players and pack size up to the bounds.                        *)
(* SpecSnap adds a caller that keeps the dict _current_round_snapshot      *)
(*          returned while the handlers go on.                             *)
(* SpecRestart serves a start while a pick of one worker is in flight; the *)
(*          pick goes on with the lists it referenced before the start.    *)
(* SpecProtocol runs one draft started by host_go whose participants follow*)
(*          the answers of the server: they pick from the pack they hold   *)
(*          and claim the pack they wait on.  SpecProtocolFair adds that a *)
(*          participant that can pick or claim eventually does.            *)
(***************************************************************************)
EXTENDS Integers, Sequences, FiniteSets, TLC

\* ---------------------------------------------------------------- bounds
\* Cards per pack.  server.py sets PACK_SIZE = 14; the model slices packs of
\* this size so that every order of picks can be enumerated.
PACK_SIZE == 1
\* Largest `rounds` a start request asks for.
MaxRounds == 2
\* Largest `players` a start request asks for, and most open sockets.
MaxPlayers == 2
\* Most packs one session may hold over all its rounds (players * rounds).
MaxPacks == 4
\* Worker threads that serve requests at the same time in SpecConc.
NThreads == 2
\* Largest flat pool (rows of cards.csv) the generator is called with in SpecGen.
MaxPool == 4
\* Largest PACK_SIZE the generator is called with in SpecGen.
MaxPackSize == 2

DEFAULT_ROUNDS == 3

Names == {"a", "b"}

None == <<>>
Some(v) == <<v>>
Opt(S) == {None} \cup {Some(v) : v \in S}

VARIABLES
    packs_rounds,        \* packs_rounds[r][p]: the cards left in pack p of round r
    packs_ready_rounds,  \* the parallel hand-off flags
    current_round,
    TOTAL_ROUNDS,
    players_count,       \* None until the first start
    decks_by_name,       \* a function from the names that have a deck
    chosen_set_name,     \* None, or the set the session was started with
    chosen_pack_folders, \* None, or the pack folders preselected for all rounds
    connected_sids,      \* the non-admin sockets, in join order
    sid_to_name,
    resp,                \* the response of the last handler that ran
    emitted,             \* the socket events the last handler emitted, in order
    threads,             \* SpecConc: each worker's position and local variables
    generated,           \* SpecGen: the last call of the fallback generator
    held,                \* SpecSnap: the dict _current_round_snapshot last returned
    gen_rounds,          \* history: every round's packs as they were generated
    picked_from,         \* history: parallel to decks_by_name, <<round, pack>> of each pick
    n_draft_complete,    \* history: draft_complete events since the last start
    handed               \* history: what the server last told each participant of a
                         \* session started by /go (the pack it holds or waits on),
                         \* and the packs whose latest pick is that participant's

selection == <<chosen_set_name, chosen_pack_folders>>
store == <<packs_rounds, packs_ready_rounds, current_round, TOTAL_ROUNDS,
           players_count, decks_by_name, selection, generated, held>>
presence == <<connected_sids, sid_to_name>>
history == <<gen_rounds, picked_from, n_draft_complete, handed>>
vars == <<packs_rounds, packs_ready_rounds, current_round, TOTAL_ROUNDS,
          players_count, decks_by_name, chosen_set_name, chosen_pack_folders,
          connected_sids, sid_to_name,
          resp, emitted, threads, generated, held, gen_rounds, picked_from, n_draft_complete,
          handed>>

\* ------------------------------------------------------------ sequences
EmptyFn == [k \in {} |-> <<>>]

Range(s) == {s[i] : i \in 1..Len(s)}

Take(s, n) == SubSeq(s, 1, IF n < Len(s) THEN n ELSE Len(s))

Drop(s, n) == SubSeq(s, n + 1, Len(s))

RemoveAt(s, i) == SubSeq(s, 1, i - 1) \o SubSeq(s, i + 1, Len(s))

Repeat(v, n) == [i \in 1..n |-> v]

RECURSIVE SumSeq(_)
SumSeq(s) == IF s = <<>> THEN 0 ELSE s[1] + SumSeq(Tail(s))

Count(s, v) == Cardinality({i \in 1..Len(s) : s[i] = v})

\* ------------------------------------------------------------ the pool
\* The rows of cards.csv, by name.
all_cards == <<1, 2>>
PoolSize == Len(all_cards)

\* random.shuffle: any permutation of the list.
Shuffles(s) ==
    {[i \in 1..Len(s) |-> s[f[i]]] :
        f \in {g \in [1..Len(s) -> 1..Len(s)] : \A i, j \in 1..Len(s) : g[i] = g[j] => i = j}}

\* The fallback loop of generate_round_packs on an already shuffled list.
RECURSIVE FallbackPacks(_, _)
FallbackPacks(shuffled, n) ==
    IF n = 0 THEN <<>>
    ELSE LET pack == Take(shuffled, PACK_SIZE)
             rest == IF Len(shuffled) >= PACK_SIZE
                     THEN Drop(shuffled, PACK_SIZE)
                     ELSE shuffled \o pack
         IN <<pack>> \o FallbackPacks(rest, n - 1)

\* The same loop for a server whose PACK_SIZE is pack_size.
RECURSIVE FallbackPacksOf(_, _, _)
FallbackPacksOf(shuffled, n, pack_size) ==
    IF n = 0 THEN <<>>
    ELSE LET pack == Take(shuffled, pack_size)
             rest == IF Len(shuffled) >= pack_size
                     THEN Drop(shuffled, pack_size)
                     ELSE shuffled \o pack
         IN <<pack>> \o FallbackPacksOf(rest, n - 1, pack_size)

\* generate_round_packs(num_players, round_index): the set of results.
generate_round_packs(num_players) ==
    {FallbackPacks(shuffled, num_players) : shuffled \in Shuffles(all_cards)}

\* The same, tabulated once for the player counts a session can have.
RoundPacks == [n \in 1..(MaxPlayers + 1) |-> generate_round_packs(n)]

\* ------------------------------------------------------------- the sets
\* The directory sets/: the set "s" with three pack folders and the set "t"
\* with two.
list_pack_folders(set_name) ==
    IF set_name = "s" THEN <<"f1", "f2", "f3">>
    ELSE IF set_name = "t" THEN <<"g1", "g2">>
    ELSE <<>>

\* The rows of sets/<set>/<folder>/cards.csv, by name, in file order; the
\* file of f3 has two rows of the same name.  The packs of "s" differ in
\* size, those of "t" have two cards each.
load_pack_cards(set_name, pack_folder) ==
    IF set_name = "s" /\ pack_folder = "f1" THEN <<1>>
    ELSE IF set_name = "s" /\ pack_folder = "f2" THEN <<2>>
    ELSE IF set_name = "s" /\ pack_folder = "f3" THEN <<1, 2, 1>>
    ELSE IF set_name = "t" /\ pack_folder = "g1" THEN <<1, 2>>
    ELSE IF set_name = "t" /\ pack_folder = "g2" THEN <<2, 1>>
    ELSE <<>>

\* Mutant of ChosenFolders: the first shuffled folder is chosen every time.
ChosenFolders_first(shuffled, total_needed) == [i \in 1..total_needed |-> shuffled[1]]

\* Lines 225-229: the shuffled folders, repeated until total_needed are chosen.
ChosenFolders(shuffled, total_needed) ==
    [i \in 1..total_needed |-> shuffled[((i - 1) % Len(shuffled)) + 1]]

\* Lines 216-230 (host_go) and 467-480 (refresh): the values chosen_pack_folders
\* can take at a start with `set_name` in the body.
Preselect(set_name, total_needed) ==
    IF set_name # None /\ list_pack_folders(set_name[1]) # <<>>
    THEN {Some(ChosenFolders(shuffled, total_needed)) :
             shuffled \in Shuffles(list_pack_folders(set_name[1]))}
    ELSE {None}

\* Line 150: the folders of the chosen list are used.
UsesChosenFolders(chosen, set_name) ==
    chosen # None /\ chosen[1] # <<>> /\ set_name # None

\* Lines 152-156: the packs of the slice of the chosen list for this round.
SetPacks(chosen, num_players, round_index, set_name) ==
    LET start == round_index * num_players
        stop == IF start + num_players < Len(chosen) THEN start + num_players ELSE Len(chosen)
        group == SubSeq(chosen, start + 1, stop)
    IN [i \in 1..Len(group) |-> load_pack_cards(set_name, group[i])]

\* generate_round_packs(num_players, round_index, set_name) with
\* chosen_pack_folders = chosen: the set of results.
GenerateRound(chosen, num_players, round_index, set_name) ==
    IF UsesChosenFolders(chosen, set_name)
    THEN {SetPacks(chosen[1], num_players, round_index, set_name[1])}
    ELSE RoundPacks[num_players]

\* --------------------------------------------------------- notifications
\* _current_round_snapshot merged with the payload, as notify_clients emits it.
Snapshot(event, rounds, ready, cur) ==
    [event |-> event,
     current_round |-> cur,
     packs |-> IF rounds = <<>> \/ cur >= Len(rounds) THEN <<>> ELSE rounds[cur + 1],
     packs_ready |-> IF rounds = <<>> \/ cur >= Len(rounds) THEN <<>> ELSE ready[cur + 1]]

\* The dict _current_round_snapshot returns holds the lists
\* packs_rounds[current_round] and packs_ready_rounds[current_round]
\* themselves (lines 115-116), not copies: `ref` is "live" while these lists
\* are lists of the session, `round` is their index, `taken` is what the dict
\* showed when it was returned, and `frozen` is what it shows once the lists
\* are no longer the session's.
NoSnapshot == [ref |-> "none", round |-> 0,
               taken |-> Snapshot("snapshot", <<>>, <<>>, 0),
               frozen |-> Snapshot("snapshot", <<>>, <<>>, 0)]

\* What the held dict shows in the present state.
Shows(h) ==
    IF h.ref = "live"
    THEN [h.taken EXCEPT !.packs = packs_rounds[h.round + 1],
                         !.packs_ready = packs_ready_rounds[h.round + 1]]
    ELSE h.frozen

\* Lines 232-233 and 482-483: a start binds packs_rounds and
\* packs_ready_rounds to new lists; the lists a dict holds stay as they are.
Detached(h) == IF h.ref = "live" THEN [h EXCEPT !.ref = "detached", !.frozen = Shows(h)] ELSE h

\* ------------------------------------------------------------- responses
NoResp == [op |-> "none", status |-> 0, error |-> "", advanced |-> FALSE,
           next_index |-> 0, round_advanced |-> FALSE, current_round |-> 0,
           deck |-> <<>>, pack_index |-> 0, pack |-> <<>>, packs_ready |-> <<>>]

ErrorResp(op, status, error) ==
    [NoResp EXCEPT !.op = op, !.status = status, !.error = error]

\* A handler that returns an error before it changes anything.
Reject(op, status, error) ==
    /\ resp' = ErrorResp(op, status, error)
    /\ emitted' = <<>>
    /\ UNCHANGED <<store, presence, history, threads>>

\* No call of the generator outside a session has been made.
NoCall == [all_cards |-> <<>>, num_players |-> 0, pack_size |-> 0, packs |-> <<>>]

\* -------------------------------------------------------------- workers
Threads == 1..NThreads

\* A worker between requests; the locals of click and claim_pack at their defaults.
\* `detached` says that a start has rebound packs_rounds since the worker
\* took its references round_packs and round_ready (lines 330-331): they are
\* then lists of the superseded session, kept here by value.
Idle == [pc |-> "idle", player_name |-> "", card_name |-> 0, pack_index |-> 0,
         target_round |-> 0, card_index |-> 0, next_round_index |-> 0,
         round_advanced |-> FALSE,
         detached |-> FALSE, round_packs |-> <<>>, round_ready |-> <<>>]

\* --------------------------------------------------------------- Init
Init ==
    /\ packs_rounds = <<>>
    /\ packs_ready_rounds = <<>>
    /\ current_round = 0
    /\ TOTAL_ROUNDS = DEFAULT_ROUNDS
    /\ players_count = None
    /\ decks_by_name = [k \in Names |-> <<>>]
    /\ chosen_set_name = None
    /\ chosen_pack_folders = None
    /\ connected_sids = <<>>
    /\ sid_to_name = EmptyFn
    /\ resp = NoResp
    /\ emitted = <<>>
    /\ threads = [t \in Threads |-> Idle]
    /\ generated = NoCall
    /\ held = NoSnapshot
    /\ gen_rounds = <<>>
    /\ picked_from = [k \in Names |-> <<>>]
    /\ n_draft_complete = 0
    /\ handed = [k \in Names |-> None]

\* ---------------------------------------------------------------- start
\* Mutant of ResetDecks: the decks are left as they are.
ResetDecks_keeps(decks) == decks

\* decks_by_name[k] = [] for every key (host_go 238-239, refresh 489-490).
ResetDecks(decks) == [k \in DOMAIN decks |-> <<>>]

\* Mutant of GoMessages: every socket is sent to pack 0.
GoMessages_first(players, rounds) ==
    [i \in 1..Len(connected_sids) |->
        [event |-> "go", to |-> connected_sids[i],
         pack_index |-> 0,
         name |-> sid_to_name[connected_sids[i]],
         players |-> players, rounds |-> rounds]]

\* The 'go' messages of host_go, one per connected socket in join order.
GoMessages(players, rounds) ==
    [i \in 1..Len(connected_sids) |->
        [event |-> "go", to |-> connected_sids[i],
         pack_index |-> (i - 1) % players,
         name |-> sid_to_name[connected_sids[i]],
         players |-> players, rounds |-> rounds]]

\* The pack each 'go' message of a start assigns (lines 244-248): the
\* participant of that name starts holding it.  A start by /refresh sends no
\* 'go' message and assigns nothing.
Assigned(events) ==
    [k \in Names |->
        LET to_k == {i \in 1..Len(events) : events[i].event = "go" /\ events[i].name = k}
        IN IF to_k = {} THEN None
           ELSE Some([holds |-> TRUE,
                      pack |-> events[CHOOSE i \in to_k : \A j \in to_k : j <= i].pack_index,
                      last |-> {}])]

\* The answer to a pick (lines 389-407: advanced with next_pack_index, or
\* waiting_on) and to a claim (lines 443-445) tells the participant which pack
\* it holds or waits on.  The request was a pick from the pack the participant
\* held (was_holding) or a claim of the pack it waited on, in the current
\* round; a participant that has asked for anything else is followed no longer.
Hand(name, was_holding, target_round, from_pack, holds, pack) ==
    IF name \notin Names \/ handed[name] = None THEN handed
    ELSE IF /\ handed[name][1].holds = was_holding
            /\ handed[name][1].pack = from_pack
            /\ target_round = current_round
    THEN [handed EXCEPT ![name] = Some([@[1] EXCEPT !.holds = holds, !.pack = pack])]
    ELSE [handed EXCEPT ![name] = None]

\* Line 345: `name` has taken a card from pack pack_index of round
\* target_round; the latest pick on that pack is now this one.
Picked(h, name, target_round, pack_index) ==
    [k \in Names |->
        IF h[k] = None THEN None
        ELSE Some([h[k][1] EXCEPT
                      !.last = IF k = name THEN @ \cup {<<target_round, pack_index>>}
                               ELSE @ \ {<<target_round, pack_index>>}])]

\* The reset both start handlers perform: only round 0 is created.
StartSession(set_name, players, rounds, first_events) ==
    \E chosen \in Preselect(set_name, players * rounds) :
      \E packs \in GenerateRound(chosen, players, 0, set_name) :
        /\ chosen_set_name' = set_name
        /\ chosen_pack_folders' = chosen
        /\ TOTAL_ROUNDS' = rounds
        /\ players_count' = Some(players)
        /\ packs_rounds' = <<packs>>
        /\ packs_ready_rounds' = <<Repeat(FALSE, players)>>
        /\ decks_by_name' = ResetDecks(decks_by_name)
        /\ current_round' = 0
        /\ emitted' = first_events \o
                      <<Snapshot("refresh", packs_rounds', packs_ready_rounds', 0)>>
        /\ gen_rounds' = <<packs>>
        /\ picked_from' = ResetDecks(picked_from)
        /\ n_draft_complete' = 0
        /\ handed' = Assigned(first_events)
        /\ held' = Detached(held)
        /\ UNCHANGED generated

\* POST /go with body {rounds}.
host_go(rounds) ==
    LET players == Len(connected_sids)
    IN IF players <= 0
       THEN Reject("go", 400, "No connected clients to start")
       ELSE /\ players * rounds <= MaxPacks
            /\ StartSession(None, players, rounds, GoMessages(players, rounds))
            /\ resp' = [NoResp EXCEPT !.op = "go", !.status = 200]
            /\ UNCHANGED <<presence, threads>>

\* POST /go with body {set, rounds}.
host_go_set(set_name, rounds) ==
    LET players == Len(connected_sids)
    IN IF players <= 0
       THEN Reject("go", 400, "No connected clients to start")
       ELSE /\ players * rounds <= MaxPacks
            /\ StartSession(Some(set_name), players, rounds, GoMessages(players, rounds))
            /\ resp' = [NoResp EXCEPT !.op = "go", !.status = 200]
            /\ UNCHANGED <<presence, threads>>

\* POST /refresh with body {players, rounds}.
refresh(players, rounds) ==
    /\ players * rounds <= MaxPacks
    /\ StartSession(None, players, rounds, <<>>)
    /\ resp' = [NoResp EXCEPT !.op = "refresh", !.status = 200]
    /\ UNCHANGED <<presence, threads>>

\* POST /refresh with body {set, players, rounds}.
refresh_set(set_name, players, rounds) ==
    /\ players * rounds <= MaxPacks
    /\ StartSession(Some(set_name), players, rounds, <<>>)
    /\ resp' = [NoResp EXCEPT !.op = "refresh", !.status = 200]
    /\ UNCHANGED <<presence, threads>>

\* ------------------------------------------------------------- presence
\* on_connect of a named, non-admin socket with a fresh sid.
on_connect(sid, name) ==
    /\ sid \notin Range(connected_sids)
    /\ sid_to_name' = [k \in DOMAIN sid_to_name \cup {sid} |->
                            IF k = sid THEN name ELSE sid_to_name[k]]
    /\ connected_sids' = Append(connected_sids, sid)
    /\ emitted' = <<[event |-> "user_count", count |-> Len(connected_sids')]>>
    /\ UNCHANGED <<store, resp, history, threads>>

\* on_disconnect of a non-admin socket.
on_disconnect(sid) ==
    /\ sid \in Range(connected_sids)
    /\ connected_sids' = SelectSeq(connected_sids, LAMBDA x : x # sid)
    /\ sid_to_name' = [k \in DOMAIN sid_to_name \ {sid} |-> sid_to_name[k]]
    /\ emitted' = <<[event |-> "user_count", count |-> Len(connected_sids')]>>
    /\ UNCHANGED <<store, resp, history, threads>>

\* ---------------------------------------------------------------- click
\* Mutant of TargetRound: the round field of the request is ignored.
TargetRound_current(requested_round) == current_round

\* Lines 325-328 (click) and 428-431 (claim_pack): the round a request acts on.
TargetRound(requested_round) ==
    IF requested_round # None /\ 0 <= requested_round[1]
                              /\ requested_round[1] < Len(packs_rounds)
    THEN requested_round[1]
    ELSE current_round

\* Mutant of FindCard: the last position holding a card of that name.
FindCard_last(pack, card_name) ==
    IF \E i \in 1..Len(pack) : pack[i] = card_name
    THEN CHOOSE i \in 1..Len(pack) :
            /\ pack[i] = card_name
            /\ \A j \in (i + 1)..Len(pack) : pack[j] # card_name
    ELSE 0

\* Line 339: the first position holding a card of that name, 0 for None.
FindCard(pack, card_name) ==
    IF \E i \in 1..Len(pack) : pack[i] = card_name
    THEN CHOOSE i \in 1..Len(pack) :
            /\ pack[i] = card_name
            /\ \A j \in 1..(i - 1) : pack[j] # card_name
    ELSE 0

\* Mutant of PopCard: the card is read (current_pack[card_index]) but not popped.
PopCard_keeps(pack, card_index) == pack

\* Line 345: current_pack.pop(card_index), the list that is left.
PopCard(pack, card_index) == RemoveAt(pack, card_index)

\* Mutant of DeckAppend: the popped card is dropped instead of appended.
DeckAppend_drops(decks, player_name, card) == decks

\* Mutant of DeckAppend: the card is appended twice.
DeckAppend_twice(decks, player_name, card) ==
    [decks EXCEPT ![player_name] = decks[player_name] \o <<card, card>>]

\* Line 346: decks_by_name.setdefault(player_name, []).append(card).
DeckAppend(decks, player_name, card) ==
    [decks EXCEPT ![player_name] = Append(decks[player_name], card)]

\* Mutant of DeckOf: the generic empty deck that refresh answers with.
DeckOf_empty(decks, name) == <<>>

\* decks_by_name.get(name, []).
DeckOf(decks, name) == IF name \in DOMAIN decks THEN decks[name] ELSE <<>>

\* Mutant of InAuthoritativeRound: the test of line 353 is missing.
InAuthoritativeRound_any(target_round) == TRUE

\* Line 353: only a pick in the authoritative round may advance it.
InAuthoritativeRound(target_round) == target_round = current_round

\* Mutant of AllEmpty: any() in place of all().
AllEmpty_any(round_packs) == \E i \in 1..Len(round_packs) : Len(round_packs[i]) = 0

\* Line 355: all(len(p) == 0 for p in round_packs).
AllEmpty(round_packs) == \A i \in 1..Len(round_packs) : Len(round_packs[i]) = 0

\* Mutant of HasNextRound: <= in place of <.
HasNextRound_inclusive(next_round_index) == next_round_index <= TOTAL_ROUNDS

\* Line 359: a next round is generated only below TOTAL_ROUNDS.
HasNextRound(next_round_index) == next_round_index < TOTAL_ROUNDS

\* Mutant of AdvanceTo: the round is appended but current_round is left behind.
AdvanceTo_stays(next_round_index) == current_round

\* Mutant of AdvanceTo: current_round skips a round.
AdvanceTo_skips(next_round_index) == next_round_index + 1

\* Line 366: current_round = next_round_index.
AdvanceTo(next_round_index) == next_round_index

\* Mutant of NumPlayers: the sockets connected now are counted when there are any.
NumPlayers_connected ==
    IF connected_sids # <<>> THEN Len(connected_sids) ELSE players_count[1]

\* Line 361.
NumPlayers == IF players_count # None THEN players_count[1] ELSE Len(connected_sids)

\* Mutant of NextIndex: the caller's own slot, as line 386 computes it.
NextIndex_same(pack_index, round_packs) ==
    IF round_packs # <<>> THEN pack_index % Len(round_packs) ELSE 0

\* Line 376.
NextIndex(pack_index, round_packs) ==
    IF round_packs # <<>> THEN (pack_index + 1) % Len(round_packs) ELSE 0

\* Lines 344-407: the pick itself, once the request has passed every check.
Pick(player_name, target_round, pack_index, card_index) ==
    LET current_pack == packs_rounds[target_round + 1][pack_index + 1]
        card == current_pack[card_index]
        packs1 == [packs_rounds EXCEPT
                      ![target_round + 1][pack_index + 1] = PopCard(current_pack, card_index)]
        decks1 == DeckAppend(decks_by_name, player_name, card)
        ready1 == [packs_ready_rounds EXCEPT ![target_round + 1][pack_index + 1] = TRUE]
        all_empty == InAuthoritativeRound(target_round) /\ AllEmpty(packs1[target_round + 1])
        next_round_index == current_round + 1
        round_advanced == all_empty /\ HasNextRound(next_round_index)
        draft_complete == all_empty /\ ~HasNextRound(next_round_index)
        next_index == NextIndex(pack_index, packs1[target_round + 1])
    IN \E next_round_packs \in
            (IF round_advanced
             THEN GenerateRound(chosen_pack_folders, NumPlayers, next_round_index,
                                chosen_set_name)
             ELSE {<<>>}) :
        LET packs2 == IF round_advanced THEN Append(packs1, next_round_packs) ELSE packs1
            ready2 == IF round_advanced
                      THEN Append(ready1, Repeat(FALSE, NumPlayers))
                      ELSE ready1
            cur2 == IF round_advanced THEN AdvanceTo(next_round_index) ELSE current_round
            consume == ~round_advanced /\ ready2[target_round + 1][next_index + 1]
            ready3 == IF consume
                      THEN [ready2 EXCEPT ![target_round + 1][next_index + 1] = FALSE]
                      ELSE ready2
            into_new == /\ round_advanced
                        /\ cur2 < Len(packs2)
                        /\ Len(packs2[cur2 + 1]) > 0
            can_advance == consume \/ into_new
            final_index == IF into_new THEN pack_index % Len(packs2[cur2 + 1]) ELSE next_index
        IN /\ packs_rounds' = packs2
           /\ packs_ready_rounds' = ready3
           /\ current_round' = cur2
           /\ decks_by_name' = decks1
           /\ emitted' =
                (IF round_advanced
                 THEN <<Snapshot("round_advanced", packs2, ready2, cur2)>>
                 ELSE IF draft_complete
                 THEN <<Snapshot("draft_complete", packs1, ready1, current_round)>>
                 ELSE <<>>)
                \o <<Snapshot("pick_made", packs2, ready3, cur2)>>
           /\ resp' = [NoResp EXCEPT !.op = "click", !.status = 200,
                          !.advanced = can_advance, !.next_index = final_index,
                          !.round_advanced = round_advanced, !.current_round = cur2,
                          !.deck = DeckOf(decks1, player_name)]
           /\ gen_rounds' = IF round_advanced
                            THEN Append(gen_rounds, next_round_packs)
                            ELSE gen_rounds
           /\ picked_from' = [picked_from EXCEPT
                                 ![player_name] = Append(@, <<target_round, pack_index>>)]
           /\ n_draft_complete' = n_draft_complete + (IF draft_complete THEN 1 ELSE 0)
           /\ handed' = Picked(Hand(player_name, TRUE, target_round, pack_index,
                                     can_advance, final_index),
                                player_name, target_round, pack_index)
           /\ UNCHANGED <<TOTAL_ROUNDS, players_count, selection, generated, held, presence, threads>>

\* Mutant of CardNotFound: the pack was marked ready before the card was looked up.
CardNotFound_marks(target_round, pack_index) ==
    /\ packs_ready_rounds' = [packs_ready_rounds EXCEPT
                                 ![target_round + 1][pack_index + 1] = TRUE]
    /\ resp' = ErrorResp("click", 404, "Card not found in specified pack")
    /\ emitted' = <<>>
    /\ UNCHANGED <<packs_rounds, current_round, TOTAL_ROUNDS, players_count, selection, generated, held,
                   decks_by_name, presence, history, threads>>

\* Lines 340-342: the card is not in the addressed pack.
CardNotFound(target_round, pack_index) ==
    Reject("click", 404, "Card not found in specified pack")

\* POST /click with body {player, card, pack_index, round}.
click(player_name, card_name, pack_index, requested_round) ==
    IF player_name = "" THEN Reject("click", 400, "No player name provided")
    ELSE IF card_name = 0 THEN Reject("click", 400, "No card name provided")
    ELSE IF packs_rounds = <<>> THEN Reject("click", 200, "No packs loaded")
    ELSE LET target_round == TargetRound(requested_round)
             round_packs == packs_rounds[target_round + 1]
         IN IF pack_index = None
            THEN Reject("click", 400, "pack_index is required in multi-client mode")
            ELSE IF pack_index[1] < 0 \/ pack_index[1] >= Len(round_packs)
            THEN Reject("click", 400, "Invalid pack index")
            ELSE LET card_index == FindCard(round_packs[pack_index[1] + 1], card_name)
                 IN IF card_index = 0
                    THEN CardNotFound(target_round, pack_index[1])
                    ELSE Pick(player_name, target_round, pack_index[1], card_index)

\* ----------------------------------------------------------- claim_pack
\* Mutant of Claim: every flag of the round is cleared.
Claim_clears_round(name, target_round, pack_index) ==
    /\ packs_ready_rounds' =
          [packs_ready_rounds EXCEPT
              ![target_round + 1] = [i \in 1..Len(packs_ready_rounds[target_round + 1]) |-> FALSE]]
    /\ emitted' = <<Snapshot("pack_claimed", packs_rounds, packs_ready_rounds', current_round)>>
    /\ resp' = [NoResp EXCEPT !.op = "claim_pack", !.status = 200,
                   !.pack_index = pack_index,
                   !.pack = packs_rounds[target_round + 1][pack_index + 1],
                   !.packs_ready = packs_ready_rounds'[target_round + 1],
                   !.deck = DeckOf(decks_by_name, name)]
    /\ handed' = Hand(name, FALSE, target_round, pack_index, TRUE, pack_index)
    /\ UNCHANGED <<packs_rounds, current_round, TOTAL_ROUNDS, players_count, selection, generated, held,
                   decks_by_name, presence, gen_rounds, picked_from, n_draft_complete, threads>>

\* Line 440 and the response of lines 443-445.
Claim(name, target_round, pack_index) ==
    /\ packs_ready_rounds' = [packs_ready_rounds EXCEPT
                                 ![target_round + 1][pack_index + 1] = FALSE]
    /\ emitted' = <<Snapshot("pack_claimed", packs_rounds, packs_ready_rounds', current_round)>>
    /\ resp' = [NoResp EXCEPT !.op = "claim_pack", !.status = 200,
                   !.pack_index = pack_index,
                   !.pack = packs_rounds[target_round + 1][pack_index + 1],
                   !.packs_ready = packs_ready_rounds'[target_round + 1],
                   !.deck = DeckOf(decks_by_name, name)]
    /\ handed' = Hand(name, FALSE, target_round, pack_index, TRUE, pack_index)
    /\ UNCHANGED <<packs_rounds, current_round, TOTAL_ROUNDS, players_count, selection, generated, held,
                   decks_by_name, presence, gen_rounds, picked_from, n_draft_complete, threads>>

\* Mutant of IsReady: the readiness check is missing.
IsReady_always(target_round, pack_index) == TRUE

\* Line 435: the hand-off flag of the addressed pack.
IsReady(target_round, pack_index) == packs_ready_rounds[target_round + 1][pack_index + 1]

\* POST /claim_pack with body {pack_index, name, round}.
claim_pack(pack_index, name, requested_round) ==
    IF pack_index = None THEN Reject("claim_pack", 400, "pack_index required")
    ELSE IF packs_rounds = <<>> THEN Reject("claim_pack", 200, "no packs loaded")
    ELSE LET target_round == TargetRound(requested_round)
         IN IF pack_index[1] < 0 \/ pack_index[1] >= Len(packs_rounds[target_round + 1])
            THEN Reject("claim_pack", 400, "invalid pack_index")
            ELSE IF ~IsReady(target_round, pack_index[1])
            THEN Reject("claim_pack", 409, "pack not ready")
            ELSE Claim(name, target_round, pack_index[1])

\* ------------------------------------------------------------- requests
\* The requests the model sends.  Well-formed ones name a player, a card of the
\* pool, a pack slot and, optionally, a round; the malformed ones each break one
\* field of a well-formed request.
Rounds == 0..(MaxRounds - 1)
Slots == 0..(MaxPlayers - 1)

ClickRequests ==
    (Names \X (1..PoolSize) \X {Some(i) : i \in Slots} \X Opt(Rounds))
    \cup {<<"", 1, Some(0), None>>, <<"a", 0, Some(0), None>>, <<"a", 1, None, None>>,
          <<"a", 1, Some(-1), None>>, <<"a", 1, Some(MaxPlayers), None>>,
          <<"a", 1, Some(0), Some(-1)>>, <<"a", 1, Some(0), Some(MaxRounds)>>}

ClaimRequests ==
    ({Some(i) : i \in Slots} \X Names \X Opt(Rounds))
    \cup {<<None, "a", None>>, <<Some(-1), "a", None>>, <<Some(MaxPlayers), "a", None>>,
          <<Some(0), "", None>>, <<Some(0), "a", Some(-1)>>, <<Some(0), "a", Some(MaxRounds)>>}

Sids == 1..MaxPlayers

Next ==
    \/ \E players \in 1..MaxPlayers, rounds \in 1..MaxRounds : refresh(players, rounds)
    \/ \E r \in ClickRequests : click(r[1], r[2], r[3], r[4])
    \/ \E r \in ClaimRequests : claim_pack(r[1], r[2], r[3])

Spec == Init /\ [][Next]_vars

\* ------------------------------------------------- handlers in statements
\* In SpecConc a handler is a sequence of steps of one worker; between two
\* steps any other worker may run.  A worker keeps target_round and pack_index
\* where the code keeps the references round_packs, round_ready and
\* current_pack: while a pick or claim is in flight no start runs, and a click
\* only ever appends to packs_rounds, so the indices name the same lists.
AllIdle == \A t \in Threads : threads[t].pc = "idle"

Goto(t, locals) == threads' = [threads EXCEPT ![t] = locals]

\* A start handler, served while no pick or claim is in flight.
start(players, rounds) == AllIdle /\ refresh(players, rounds)

\* click, lines 311-342: the request is checked and the card is looked up.
click_begin(t, player_name, card_name, pack_index, requested_round) ==
    /\ threads[t].pc = "idle"
    /\ IF player_name = "" THEN Reject("click", 400, "No player name provided")
       ELSE IF card_name = 0 THEN Reject("click", 400, "No card name provided")
       ELSE IF packs_rounds = <<>> THEN Reject("click", 200, "No packs loaded")
       ELSE LET target_round == TargetRound(requested_round)
                round_packs == packs_rounds[target_round + 1]
            IN IF pack_index = None
               THEN Reject("click", 400, "pack_index is required in multi-client mode")
               ELSE IF pack_index[1] < 0 \/ pack_index[1] >= Len(round_packs)
               THEN Reject("click", 400, "Invalid pack index")
               ELSE LET card_index == FindCard(round_packs[pack_index[1] + 1], card_name)
                    IN IF card_index = 0
                       THEN CardNotFound(target_round, pack_index[1])
                       ELSE /\ Goto(t, [Idle EXCEPT !.pc = "pop",
                                                    !.player_name = player_name,
                                                    !.card_name = card_name,
                                                    !.pack_index = pack_index[1],
                                                    !.target_round = target_round,
                                                    !.card_index = card_index])
                            /\ emitted' = <<>>
                            /\ UNCHANGED <<store, presence, history, resp>>

\* click, lines 345-349: pop the card, append it to the deck, mark the pack.
\* list.pop raises IndexError when the pack has become shorter than
\* card_index; Flask answers 500 and the handler ends.
click_pop(t) ==
    LET w == threads[t]
        current_pack == packs_rounds[w.target_round + 1][w.pack_index + 1]
    IN /\ w.pc = "pop"
       /\ emitted' = <<>>
       /\ IF w.card_index > Len(current_pack)
          THEN /\ resp' = ErrorResp("click", 500, "IndexError")
               /\ Goto(t, Idle)
               /\ UNCHANGED <<store, presence, history>>
          ELSE /\ packs_rounds' = [packs_rounds EXCEPT
                                     ![w.target_round + 1][w.pack_index + 1] =
                                         PopCard(current_pack, w.card_index)]
               /\ decks_by_name' = DeckAppend(decks_by_name, w.player_name,
                                              current_pack[w.card_index])
               /\ packs_ready_rounds' = [packs_ready_rounds EXCEPT
                                           ![w.target_round + 1][w.pack_index + 1] = TRUE]
               /\ picked_from' = [picked_from EXCEPT
                                     ![w.player_name] =
                                         Append(@, <<w.target_round, w.pack_index>>)]
               /\ Goto(t, [w EXCEPT !.pc = "check"])
               /\ UNCHANGED <<current_round, TOTAL_ROUNDS, players_count, selection, generated, held, presence,
                              resp, gen_rounds, n_draft_complete>>
               /\ handed' = Picked(handed, w.player_name, w.target_round, w.pack_index)

\* click, lines 376-407: the hand-off and the response, on the lists and the
\* current_round the pick has left.
Finish(t, round_advanced, rounds, ready, cur) ==
    LET w == threads[t]
        next_index == NextIndex(w.pack_index, rounds[w.target_round + 1])
        consume == ~round_advanced /\ ready[w.target_round + 1][next_index + 1]
        into_new == /\ round_advanced
                    /\ cur < Len(rounds)
                    /\ Len(rounds[cur + 1]) > 0
        final_index == IF into_new THEN w.pack_index % Len(rounds[cur + 1]) ELSE next_index
    IN /\ packs_ready_rounds' =
             IF consume
             THEN [ready EXCEPT ![w.target_round + 1][next_index + 1] = FALSE]
             ELSE ready
       /\ resp' = [NoResp EXCEPT !.op = "click", !.status = 200,
                      !.advanced = consume \/ into_new, !.next_index = final_index,
                      !.round_advanced = round_advanced,
                      !.current_round = cur,
                      !.deck = DeckOf(decks_by_name, w.player_name)]
       /\ handed' = Hand(w.player_name, TRUE, w.target_round, w.pack_index,
                          consume \/ into_new, final_index)
       /\ Goto(t, Idle)

\* click, lines 352-359: is the authoritative round exhausted, and is there a
\* round after it.  A pick that generates no round runs on to its end
\* (lines 371-407).
click_check(t) ==
    LET w == threads[t]
        all_empty == /\ InAuthoritativeRound(w.target_round)
                     /\ AllEmpty(packs_rounds[w.target_round + 1])
        next_round_index == current_round + 1
    IN /\ w.pc = "check"
       /\ IF all_empty /\ HasNextRound(next_round_index)
          THEN /\ Goto(t, [w EXCEPT !.pc = "generate",
                                    !.next_round_index = next_round_index])
               /\ emitted' = <<>>
               /\ UNCHANGED <<packs_ready_rounds, resp, n_draft_complete, handed>>
          ELSE /\ Finish(t, FALSE, packs_rounds, packs_ready_rounds, current_round)
               /\ emitted' =
                    (IF all_empty
                     THEN <<Snapshot("draft_complete", packs_rounds,
                                     packs_ready_rounds, current_round)>>
                     ELSE <<>>)
                    \o <<Snapshot("pick_made", packs_rounds, packs_ready_rounds',
                                  current_round)>>
               /\ n_draft_complete' = n_draft_complete + (IF all_empty THEN 1 ELSE 0)
       /\ UNCHANGED <<packs_rounds, current_round, TOTAL_ROUNDS, players_count, selection, generated, held,
                      decks_by_name, presence, gen_rounds, picked_from>>

\* click, lines 361-407: generate and append the next round, advance, respond.
click_generate(t) ==
    LET w == threads[t]
        ready2 == Append(packs_ready_rounds, Repeat(FALSE, NumPlayers))
    IN /\ w.pc = "generate"
       /\ \E next_round_packs \in GenerateRound(chosen_pack_folders, NumPlayers,
                                                w.next_round_index, chosen_set_name) :
            /\ packs_rounds' = Append(packs_rounds, next_round_packs)
            /\ gen_rounds' = Append(gen_rounds, next_round_packs)
       /\ current_round' = AdvanceTo(w.next_round_index)
       /\ Finish(t, TRUE, packs_rounds', ready2, current_round')
       /\ emitted' = <<Snapshot("round_advanced", packs_rounds', ready2, current_round'),
                       Snapshot("pick_made", packs_rounds', packs_ready_rounds',
                                current_round')>>
       /\ UNCHANGED <<TOTAL_ROUNDS, players_count, selection, generated, held, decks_by_name, presence,
                      picked_from, n_draft_complete>>

\* claim_pack, lines 417-437: the checks.
claim_begin(t, pack_index, name, requested_round) ==
    /\ threads[t].pc = "idle"
    /\ IF pack_index = None THEN Reject("claim_pack", 400, "pack_index required")
       ELSE IF packs_rounds = <<>> THEN Reject("claim_pack", 200, "no packs loaded")
       ELSE LET target_round == TargetRound(requested_round)
            IN IF pack_index[1] < 0 \/ pack_index[1] >= Len(packs_rounds[target_round + 1])
               THEN Reject("claim_pack", 400, "invalid pack_index")
               ELSE IF ~IsReady(target_round, pack_index[1])
               THEN Reject("claim_pack", 409, "pack not ready")
               ELSE /\ Goto(t, [Idle EXCEPT !.pc = "claim",
                                            !.player_name = name,
                                            !.pack_index = pack_index[1],
                                            !.target_round = target_round])
                    /\ emitted' = <<>>
                    /\ UNCHANGED <<store, presence, history, resp>>

\* claim_pack, lines 440-445: the flag is cleared and the pack is returned.
claim_finish(t) ==
    LET w == threads[t]
    IN /\ w.pc = "claim"
       /\ packs_ready_rounds' = [packs_ready_rounds EXCEPT
                                    ![w.target_round + 1][w.pack_index + 1] = FALSE]
       /\ emitted' = <<Snapshot("pack_claimed", packs_rounds, packs_ready_rounds',
                                current_round)>>
       /\ resp' = [NoResp EXCEPT !.op = "claim_pack", !.status = 200,
                      !.pack_index = w.pack_index,
                      !.pack = packs_rounds[w.target_round + 1][w.pack_index + 1],
                      !.packs_ready = packs_ready_rounds'[w.target_round + 1],
                      !.deck = DeckOf(decks_by_name, w.player_name)]
       /\ handed' = Hand(w.player_name, FALSE, w.target_round, w.pack_index,
                          TRUE, w.pack_index)
       /\ Goto(t, Idle)
       /\ UNCHANGED <<packs_rounds, current_round, TOTAL_ROUNDS, players_count, selection, generated, held,
                      decks_by_name, presence, gen_rounds, picked_from, n_draft_complete>>

\* Worker t serves the client of one player; a client sends its requests one
\* after the other, so requests of one player do not overlap.  The workers
\* send the well-formed requests; the checks that answer a malformed one are
\* the first lines of the handlers and are exercised in Spec.
PlayerOf(t) == IF t % 2 = 1 THEN "a" ELSE "b"

ClicksOf(t) == {PlayerOf(t)} \X (1..PoolSize) \X {Some(i) : i \in Slots} \X Opt(Rounds)

ClaimsOf(t) == {Some(i) : i \in Slots} \X {PlayerOf(t)} \X Opt(Rounds)

NextConc ==
    \/ \E players \in 1..MaxPlayers, rounds \in 1..MaxRounds : start(players, rounds)
    \/ \E t \in Threads : \E r \in ClicksOf(t) : click_begin(t, r[1], r[2], r[3], r[4])
    \/ \E t \in Threads : click_pop(t)
    \/ \E t \in Threads : click_check(t)
    \/ \E t \in Threads : click_generate(t)
    \/ \E t \in Threads : \E r \in ClaimsOf(t) : claim_begin(t, r[1], r[2], r[3])
    \/ \E t \in Threads : claim_finish(t)

SpecConc == Init /\ [][NextConc]_vars

\* ======================================================================
\* Properties
\* ======================================================================
\* The rounds of the live session, by the code's index.
Materialized == 0..(Len(packs_rounds) - 1)

PackSlots(r) == 0..(Len(packs_rounds[r + 1]) - 1)

\* Every position of every deck.
DeckPositions == UNION {{<<k, i>> : i \in 1..Len(decks_by_name[k])} : k \in Names}

\* Items left in round r.
Remaining(r) == SumSeq([p \in 1..Len(packs_rounds[r + 1]) |-> Len(packs_rounds[r + 1][p])])

\* Items round r held when it was generated.
Generated(r) == SumSeq([p \in 1..Len(gen_rounds[r + 1]) |-> Len(gen_rounds[r + 1][p])])

\* Deck positions filled by a pick from round r.
DeckItemsFromRound(r) ==
    Cardinality({d \in DeckPositions :
        /\ d[2] <= Len(picked_from[d[1]])
        /\ picked_from[d[1]][d[2]][1] = r})

\* Deck positions holding a card named n that was picked from pack p of round r.
DeckItemsFromPack(r, p, n) ==
    Cardinality({d \in DeckPositions :
        /\ d[2] <= Len(picked_from[d[1]])
        /\ picked_from[d[1]][d[2]] = <<r, p>>
        /\ decks_by_name[d[1]][d[2]] = n})

\* Every deck position is the result of one recorded pick.
DecksMatchPicks == \A k \in Names : Len(decks_by_name[k]) = Len(picked_from[k])

IsStart(r) == r.op \in {"go", "refresh"} /\ r.status = 200

\* ----------------------------------------------------------------------
\* C1 (Conservation): in every reachable state, for every materialized
\* round r of the live session, the items left in r's packs plus the deck
\* items picked from r equal the items r's packs held when generated.
C1_Conservation ==
    /\ Len(gen_rounds) = Len(packs_rounds)
    /\ DecksMatchPicks
    /\ \A r \in Materialized : Remaining(r) + DeckItemsFromRound(r) = Generated(r)

\* Two rounds are materialized, both have been picked from, items remain.
C1_Witness ==
    /\ Len(packs_rounds) = 2
    /\ DeckItemsFromRound(0) > 0
    /\ DeckItemsFromRound(1) > 0
    /\ Remaining(1) > 0

\* ----------------------------------------------------------------------
\* C2 as claimed (No double-pick): no item, identified by its name as the
\* decks hold it, occupies two deck positions of one session.
C2_NoItemTwiceInDecks ==
    \A d, e \in DeckPositions :
        d # e => decks_by_name[d[1]][d[2]] # decks_by_name[e[1]][e[2]]

\* Between two starts the decks only grow at their end.
DecksAppendOnly ==
    IsStart(resp') \/
        \A k \in Names :
            /\ Len(decks_by_name'[k]) >= Len(decks_by_name[k])
            /\ SubSeq(decks_by_name'[k], 1, Len(decks_by_name[k])) = decks_by_name[k]

\* No generated copy is in the decks twice.
NoCopyPickedTwice ==
    /\ DecksMatchPicks
    /\ \A r \in Materialized : \A p \in PackSlots(r) : \A n \in Range(all_cards) :
          DeckItemsFromPack(r, p, n) <= Count(gen_rounds[r + 1][p + 1], n)

\* C2 as amended: every copy of a card that was generated into a pack fills
\* at most one deck position (never two decks, never twice in one deck),
\* and a deck entry is never removed or moved until the next start; the
\* same name can be in the decks more than once when it was generated into
\* more than one pack or round.
C2_NoDoublePick == []NoCopyPickedTwice /\ [][DecksAppendOnly]_vars

\* Both players hold a card, one of them the same card from two rounds.
C2_Witness ==
    /\ \A k \in Names : decks_by_name[k] # <<>>
    /\ \E k \in Names : Len(decks_by_name[k]) >= 2
    /\ ~C2_NoItemTwiceInDecks

\* ----------------------------------------------------------------------
\* C3 as claimed (I2): no item that is in a deck is in any pack of any
\* materialized round, rounds generated after the pick included.
C3_NoDeckItemInAnyPack ==
    \A d \in DeckPositions : \A r \in Materialized : \A p \in PackSlots(r) :
        Count(packs_rounds[r + 1][p + 1], decks_by_name[d[1]][d[2]]) = 0

\* A picked copy has left its pack: what is left is what was generated less
\* what was picked, name by name.
PickedCopiesLeftPack ==
    /\ Len(gen_rounds) = Len(packs_rounds)
    /\ \A r \in Materialized :
          /\ Len(gen_rounds[r + 1]) = Len(packs_rounds[r + 1])
          /\ \A p \in PackSlots(r) : \A n \in Range(all_cards) :
                Count(packs_rounds[r + 1][p + 1], n) + DeckItemsFromPack(r, p, n)
                    = Count(gen_rounds[r + 1][p + 1], n)

\* Between two starts no pack of an existing round gains a card.
PacksNeverGrow ==
    IsStart(resp') \/
        /\ Len(packs_rounds') >= Len(packs_rounds)
        /\ \A r \in Materialized : \A p \in PackSlots(r) : \A n \in Range(all_cards) :
              /\ Len(packs_rounds'[r + 1]) = Len(packs_rounds[r + 1])
              /\ Count(packs_rounds'[r + 1][p + 1], n) <= Count(packs_rounds[r + 1][p + 1], n)

\* C3 as amended: an item that is in a deck is no longer in the pack it was
\* picked from and never returns to it (each pack holds what was generated
\* into it less what was picked from it, and never gains a card); a card of
\* the same name can be in another pack or in a round generated later.
C3_PickedItemLeavesItsPack == []PickedCopiesLeftPack /\ [][PacksNeverGrow]_vars

\* A card picked in round 0 is offered again by a pack of round 1.
C3_Witness ==
    /\ Len(packs_rounds) = 2
    /\ DeckItemsFromRound(0) > 0
    /\ ~C3_NoDeckItemInAnyPack

\* ----------------------------------------------------------------------
\* What a step left alone.
SessionUnchanged ==
    UNCHANGED <<packs_rounds, packs_ready_rounds, decks_by_name, current_round>>

AllPacksEmpty(round) == \A p \in 1..Len(round) : round[p] = <<>>

\* The round a request addresses, as the claims state it.
Addressed(requested_round) ==
    IF requested_round = None THEN current_round
    ELSE IF requested_round[1] \in Materialized THEN requested_round[1]
    ELSE current_round

Succeeded(r, op) == r.op = op /\ r.status = 200 /\ r.error = ""

EventCount(events, name) == Cardinality({i \in 1..Len(events) : events[i].event = name})

\* ----------------------------------------------------------------------
\* A step that is no start and changes the number of rounds appends exactly
\* round current_round + 1, and is the pick that took the last item of the
\* current round while a next round is due.
RoundAppendedOnlyByLastPick ==
    (~IsStart(resp') /\ Len(packs_rounds') # Len(packs_rounds)) =>
        /\ Succeeded(resp', "click")
        /\ resp'.round_advanced
        /\ Len(packs_rounds) = current_round + 1
        /\ Len(packs_rounds') = Len(packs_rounds) + 1
        /\ current_round' = current_round + 1
        /\ current_round + 1 < TOTAL_ROUNDS
        /\ Remaining(current_round) = 1
        /\ AllPacksEmpty(packs_rounds'[current_round + 1])

\* C4 (round materialization exactly once): within a session the round list
\* changes length only by the pick that removes the last item of round k
\* while k is current_round and k + 1 < TOTAL_ROUNDS; that pick appends
\* exactly round k + 1, which did not exist before; claims, failed picks and
\* every other step append nothing.
C4_MaterializedOnce == [][RoundAppendedOnlyByLastPick]_vars

\* Round 1 has been appended by a pick that advanced the round.
C4_Witness ==
    /\ Len(packs_rounds) = 2
    /\ current_round = 1
    /\ Succeeded(resp, "click")
    /\ resp.round_advanced

\* ----------------------------------------------------------------------
\* The cases of a pick the claim lists as rejected.
PickMustFail(r) ==
    \/ r[1] = ""
    \/ r[2] = 0
    \/ /\ packs_rounds # <<>>
       /\ r[3] # None
       /\ \/ r[3][1] \notin PackSlots(Addressed(r[4]))
          \/ Count(packs_rounds[Addressed(r[4]) + 1][r[3][1] + 1], r[2]) = 0

RejectedPickChangesNothing ==
    /\ (resp'.op = "click" /\ resp'.error # "") => SessionUnchanged
    /\ resp'.op = "click" =>
          \A r \in ClickRequests :
              (PickMustFail(r) /\ click(r[1], r[2], r[3], r[4])) =>
                  (resp'.error # "" /\ SessionUnchanged)

\* C7: a rejected pick (no player, no card name, pack index out of bounds
\* for the target round, no card of that name in the addressed pack) is
\* answered with an error and leaves every pack, ready flag and deck, the
\* round list and current_round as they were.
C7_RejectedPickNoChange == [][RejectedPickChangesNothing]_vars

\* A pick was rejected with "not found" in a session that has seen picks.
C7_Witness ==
    /\ resp.op = "click"
    /\ resp.status = 404
    /\ \E k \in Names : decks_by_name[k] # <<>>
    /\ \E r \in Materialized : \E p \in PackSlots(r) : packs_ready_rounds[r + 1][p + 1]

\* ----------------------------------------------------------------------
ClaimOfUnreadyPack(r) ==
    /\ packs_rounds # <<>>
    /\ r[1] # None
    /\ r[1][1] \in PackSlots(Addressed(r[3]))
    /\ ~packs_ready_rounds[Addressed(r[3]) + 1][r[1][1] + 1]

UnreadyClaimFails ==
    /\ (resp'.op = "claim_pack" /\ resp'.status = 409) => SessionUnchanged
    /\ resp'.op = "claim_pack" =>
          \A r \in ClaimRequests :
              (ClaimOfUnreadyPack(r) /\ claim_pack(r[1], r[2], r[3])) =>
                  /\ resp'.status = 409
                  /\ resp'.error = "pack not ready"
                  /\ SessionUnchanged

\* C8: a claim on a pack whose ready flag is false in the target round is
\* answered 409 "pack not ready" and changes no pack, ready flag or deck
\* and not current_round.
C8_UnreadyClaimRejected == [][UnreadyClaimFails]_vars

\* A claim was refused while another pack of the round was ready.
C8_Witness ==
    /\ resp.op = "claim_pack"
    /\ resp.status = 409
    /\ \E p \in PackSlots(current_round) : packs_ready_rounds[current_round + 1][p + 1]
    /\ \E p \in PackSlots(current_round) : ~packs_ready_rounds[current_round + 1][p + 1]

\* ----------------------------------------------------------------------
HandOffAfterPick ==
    (Succeeded(resp', "click") /\ ~resp'.round_advanced) =>
      \A r \in ClickRequests :
        click(r[1], r[2], r[3], r[4]) =>
            LET t == Addressed(r[4])
                pi == r[3][1]
                next == (pi + 1) % players_count[1]
                marked == [packs_ready_rounds[t + 1] EXCEPT ![pi + 1] = TRUE]
            IN /\ resp'.next_index = next
               /\ resp'.advanced = marked[next + 1]
               /\ packs_ready_rounds'[t + 1] =
                     IF marked[next + 1] THEN [marked EXCEPT ![next + 1] = FALSE] ELSE marked
               /\ \A q \in Materialized \ {t} :
                     packs_ready_rounds'[q + 1] = packs_ready_rounds[q + 1]

\* C9: a successful pick on pack_index that does not advance the round,
\* with next = (pack_index + 1) mod players evaluated after ready[pack_index]
\* was set: if ready[next] is true the answer is advanced with
\* next_pack_index = next and ready[next] becomes false; otherwise the
\* answer is not advanced with waiting_on = next and no other flag changes.
C9_HandOff == [][HandOffAfterPick]_vars

\* Two players: the pick on pack 1 after the pick on pack 0 advanced to pack 0.
C9_Witness ==
    /\ players_count = Some(2)
    /\ Succeeded(resp, "click")
    /\ resp.advanced
    /\ ~resp.round_advanced
    /\ resp.next_index = 0
    /\ packs_ready_rounds[current_round + 1] = <<FALSE, TRUE>>

\* ----------------------------------------------------------------------
FinalRound == TOTAL_ROUNDS - 1

CompletedOnce ==
    packs_rounds # <<>> =>
        /\ n_draft_complete <= 1
        /\ Len(packs_rounds) <= TOTAL_ROUNDS
        /\ n_draft_complete = 1 <=>
              /\ FinalRound \in Materialized
              /\ Generated(FinalRound) > 0
              /\ Remaining(FinalRound) = 0

CompleteEmittedByLastPick ==
    /\ EventCount(emitted', "draft_complete") <= 1
    /\ EventCount(emitted', "draft_complete") = 1 <=>
          /\ Succeeded(resp', "click")
          /\ current_round = FinalRound
          /\ Remaining(current_round) = 1
          /\ AllPacksEmpty(packs_rounds'[current_round + 1])

\* C10: in a session draft_complete is emitted at most once, by the pick
\* that removes the last item of round TOTAL_ROUNDS - 1 and by no other
\* step (so of two successive picks that take the last two items only the
\* second emits it); it has been emitted exactly when that round is
\* exhausted, and no round of index >= TOTAL_ROUNDS is materialized.
C10_DraftCompleteOnce == []CompletedOnce /\ [][CompleteEmittedByLastPick]_vars

\* A two-round session completed by a pick, both players holding cards.
C10_Witness ==
    /\ TOTAL_ROUNDS = 2
    /\ n_draft_complete = 1
    /\ EventCount(emitted, "draft_complete") = 1
    /\ \A k \in Names : decks_by_name[k] # <<>>

\* ----------------------------------------------------------------------
\* What holds of every state that handlers run one at a time can reach: no
\* handler has died, a session has completed at most once, and no round of
\* index >= TOTAL_ROUNDS exists.
SerialState ==
    /\ resp.status # 500
    /\ n_draft_complete <= 1
    /\ packs_rounds # <<>> => Len(packs_rounds) <= TOTAL_ROUNDS

\* C5 (handlers are indivisible): every state that concurrently served
\* handlers leave behind, once all of them have returned, is a state that the
\* same requests served one at a time can reach.
C5_ConcurrentIsSerial == AllIdle => SerialState

\* C6 (one generation per exhausted round): when concurrent picks take the
\* last items of the current round exactly one of them appends round
\* current_round + 1, so the round list grows by one as current_round grows
\* by one: the list holds exactly the rounds 0..current_round.
C6_OneGenerationPerRound == packs_rounds # <<>> => Len(packs_rounds) = current_round + 1

\* ----------------------------------------------------------------------
\* The session has reached its terminal round and that round is exhausted.
Completed == FinalRound \in Materialized /\ Remaining(FinalRound) = 0

\* The errors click answers in a session that is not complete.
OrdinaryPickErrors ==
    {"No player name provided", "No card name provided", "No packs loaded",
     "pack_index is required in multi-client mode", "Invalid pack index",
     "Card not found in specified pack"}

PickAfterCompletedIsDraftComplete ==
    (Completed /\ resp'.op = "click") =>
        /\ resp'.error # ""
        /\ resp'.error \notin OrdinaryPickErrors
        /\ SessionUnchanged

PickAfterCompletedFails ==
    (Completed /\ resp'.op = "click") =>
        /\ resp'.error \in OrdinaryPickErrors
        /\ resp'.status \in {400, 404}
        /\ SessionUnchanged
        /\ UNCHANGED <<TOTAL_ROUNDS, players_count, history>>

Uninitialized ==
    /\ packs_rounds = <<>>
    /\ packs_ready_rounds = <<>>
    /\ \A k \in Names : decks_by_name[k] = <<>>

RejectedBeforeStart ==
    (packs_rounds = <<>> /\ resp'.op \in {"click", "claim_pack"}) =>
        /\ resp'.status >= 400
        /\ resp'.error # ""
        /\ Uninitialized'

\* C12: before any start has run every pick and every claim is rejected with
\* an error outcome (an HTTP error status carrying an error message) and the
\* state stays uninitialized: no round, ready flag or deck entry is created.
C12_NoActiveSession == [][RejectedBeforeStart]_vars

\* ----------------------------------------------------------------------
\* The handlers served one at a time, with sockets that connect and
\* disconnect and the host's /go among them.  Socket sid belongs to the
\* client of player PlayerOf(sid); the picks and claims are the well-formed
\* requests without a round field (they act on current_round).
PlainClicks == Names \X (1..PoolSize) \X {Some(i) : i \in Slots} \X {None}

PlainClaims == {Some(i) : i \in Slots} \X Names \X {None}

\* The requests of one client, which takes every pack in turn.
OneClientClicks == {r \in PlainClicks : r[1] = "a"}

OneClientClaims == {r \in PlainClaims : r[2] = "a"}

NextPresence ==
    \/ \E sid \in Sids : on_connect(sid, PlayerOf(sid))
    \/ \E sid \in Sids : on_disconnect(sid)
    \/ \E rounds \in 1..MaxRounds : host_go(rounds)
    \/ \E players \in 1..MaxPlayers, rounds \in 1..MaxRounds : refresh(players, rounds)
    \/ \E r \in PlainClicks : click(r[1], r[2], r[3], r[4])
    \/ \E r \in PlainClaims : claim_pack(r[1], r[2], r[3])

SpecPresence == Init /\ [][NextPresence]_vars

\* ----------------------------------------------------------------------
\* The session a start leaves: round 0 alone, of `players` packs, nothing
\* ready, nothing picked.
FreshSession(players, rounds) ==
    /\ Len(packs_rounds') = 1
    /\ Len(packs_rounds'[1]) = players
    /\ packs_rounds'[1] \in generate_round_packs(players)
    /\ packs_ready_rounds' = <<[i \in 1..players |-> FALSE]>>
    /\ current_round' = 0
    /\ players_count' = Some(players)
    /\ TOTAL_ROUNDS' = rounds
    /\ \A k \in Names : decks_by_name'[k] = <<>>

StartRequests == {pr \in (1..MaxPlayers) \X (1..MaxRounds) : pr[1] * pr[2] <= MaxPacks}

\* Whatever the session, a start request is served.
StartAccepted ==
    /\ \A pr \in StartRequests : ENABLED refresh(pr[1], pr[2])
    /\ \A rounds \in 1..MaxRounds :
          Len(connected_sids) * rounds <= MaxPacks => ENABLED host_go(rounds)

StartResets ==
    /\ resp'.op \in {"go", "refresh"} =>
          /\ \A pr \in StartRequests :
                refresh(pr[1], pr[2]) =>
                    (resp'.status = 200 /\ FreshSession(pr[1], pr[2]))
          /\ \A rounds \in 1..MaxRounds :
                (connected_sids # <<>> /\ host_go(rounds)) =>
                    (resp'.status = 200 /\ FreshSession(Len(connected_sids), rounds))
    /\ IsStart(resp') /\ resp' # resp =>
          /\ Len(packs_rounds') = 1
          /\ current_round' = 0
          /\ \A k \in Names : decks_by_name'[k] = <<>>
          /\ \A p \in 1..Len(packs_ready_rounds'[1]) : ~packs_ready_rounds'[1][p]

\* C13: a start (POST /go with a connected client, POST /refresh) is served
\* in every state, uninitialized, active or completed, and whatever the
\* state was it leaves exactly one round, round 0, of participantCount
\* packs, current_round = 0, every ready flag false and every deck empty.
C13_StartResets == []StartAccepted /\ [][StartResets]_vars

\* /go has just restarted a draft for two connected clients.
C13_Witness ==
    /\ resp.op = "go"
    /\ resp.status = 200
    /\ Len(connected_sids) = 2
    /\ Len(emitted) = 3
    /\ Len(packs_rounds) = 1
    /\ Len(packs_rounds[1]) = 2

\* ----------------------------------------------------------------------
\* C14 (I3, lazy materialization): whenever every operation of an active
\* session has completed, the round list has exactly current_round + 1
\* entries, the rounds 0..current_round: a round of index i exists only if
\* i <= current_round.
C14_RoundsUpToCurrent ==
    (AllIdle /\ packs_rounds # <<>>) =>
        /\ Len(packs_rounds) = Len(packs_ready_rounds)
        /\ Materialized = 0..current_round

\* The second round exists because current_round has reached it.
C14_Witness ==
    /\ AllIdle
    /\ current_round = 1
    /\ Len(packs_rounds) = 2
    /\ Remaining(1) > 0

\* ----------------------------------------------------------------------
RoundPointerMonotone ==
    resp'.op \notin {"go", "refresh"} =>
        /\ current_round' >= current_round
        /\ current_round' # current_round =>
              /\ current_round' = current_round + 1
              /\ Succeeded(resp', "click")
              /\ resp'.round_advanced
        /\ resp'.op = "claim_pack" => current_round' = current_round

\* C15 (I4): between two starts current_round never decreases; a pick changes
\* it only by +1, when it advances the round, and a claim never changes it.
C15_RoundPointerMonotone == [][RoundPointerMonotone]_vars

\* A claim was served in round 1: a pick had advanced the round and the
\* picks and claims since have left current_round there.
C15_Witness ==
    /\ current_round = 1
    /\ Succeeded(resp, "claim_pack")
    /\ DeckItemsFromRound(1) > 0

\* ----------------------------------------------------------------------
RoundsHaveSessionWidth ==
    /\ Len(packs_ready_rounds) = Len(packs_rounds)
    /\ packs_rounds # <<>> =>
          /\ players_count # None
          /\ \A r \in Materialized :
                /\ Len(packs_rounds[r + 1]) = players_count[1]
                /\ Len(packs_ready_rounds[r + 1]) = players_count[1]

\* participantCount is fixed by a start and by nothing else.
WidthFixedAtStart ==
    players_count' # players_count =>
        /\ IsStart(resp')
        /\ Len(packs_rounds') = 1

\* C16 (I1): every materialized round has as many packs and as many ready
\* flags as the participantCount the start fixed, also a round generated
\* after sockets have connected or disconnected; only a start changes
\* participantCount, so no round ever changes its width.
C16_RoundWidth == []RoundsHaveSessionWidth /\ [][WidthFixedAtStart]_vars

\* Round 1 was generated for a two-player draft although only one socket was
\* still connected.
C16_Witness ==
    /\ players_count = Some(2)
    /\ Len(packs_rounds) = 2
    /\ Len(connected_sids) = 1
    /\ Len(packs_rounds[2]) = 2
    /\ resp.op = "click"
    /\ resp.round_advanced

\* ----------------------------------------------------------------------
\* The step is a successful pick on pack i of round r.
PickedOn(r, i) ==
    /\ Succeeded(resp', "click")
    /\ \E k \in Names : picked_from'[k] = Append(picked_from[k], <<r, i>>)

\* The flags the step changed, as <<round, pack>>.
FlagsChanged ==
    {ri \in UNION {{<<r, i>> : i \in PackSlots(r)} : r \in Materialized} :
        packs_ready_rounds'[ri[1] + 1][ri[2] + 1] # packs_ready_rounds[ri[1] + 1][ri[2] + 1]}

ReadyFlagTransitions ==
    resp'.op \notin {"go", "refresh"} =>
        /\ Len(packs_ready_rounds') >= Len(packs_ready_rounds)
        /\ \A q \in (Len(packs_ready_rounds) + 1)..Len(packs_ready_rounds') :
              \A i \in 1..Len(packs_ready_rounds'[q]) : ~packs_ready_rounds'[q][i]
        /\ \A ri \in FlagsChanged :
              LET r == ri[1]
                  i == ri[2]
                  n == Len(packs_rounds[r + 1])
              IN IF packs_ready_rounds'[r + 1][i + 1]
                 THEN PickedOn(r, i)
                 ELSE \/ /\ Succeeded(resp', "claim_pack")
                         /\ resp'.pack_index = i
                         /\ FlagsChanged = {ri}
                      \/ /\ PickedOn(r, (i + n - 1) % n)
                         /\ resp'.advanced
                         /\ ~resp'.round_advanced
                         /\ resp'.next_index = i

\* C17: within a session a ready flag of pack i of a round turns true only in
\* a successful pick on pack i of that round, and turns false only in a
\* successful claim of pack i or in a successful pick on pack (i - 1) mod N
\* of that round that consumes it; no other step changes a flag, and the
\* flags of a newly appended round are all false.
C17_ReadyFlagTransitions == [][ReadyFlagTransitions]_vars

\* A claim has taken pack 0 while pack 1 was waiting to be taken.
C17_Witness ==
    /\ Succeeded(resp, "claim_pack")
    /\ resp.pack_index = 0
    /\ resp.packs_ready = <<FALSE, TRUE>>

\* ----------------------------------------------------------------------
ClaimFrame ==
    resp'.op = "claim_pack" =>
        \A r \in ClaimRequests :
            (claim_pack(r[1], r[2], r[3]) /\ Succeeded(resp', "claim_pack")) =>
                LET t == Addressed(r[3])
                    i == r[1][1]
                IN /\ packs_ready_rounds[t + 1][i + 1]
                   /\ packs_ready_rounds' =
                         [packs_ready_rounds EXCEPT ![t + 1][i + 1] = FALSE]
                   /\ resp'.pack_index = i
                   /\ resp'.pack = packs_rounds[t + 1][i + 1]
                   /\ resp'.packs_ready = packs_ready_rounds'[t + 1]
                   /\ resp'.deck = IF r[2] \in Names THEN decks_by_name[r[2]] ELSE <<>>
                   /\ UNCHANGED <<packs_rounds, decks_by_name, current_round,
                                  TOTAL_ROUNDS, players_count>>

\* C18: a successful claim on (target round, pack_index) sets exactly the
\* ready flag of that pack in the target round to false and returns the
\* pack's current contents and the caller's deck; no pack, no deck, no other
\* flag, not the round list and not current_round change.
C18_ClaimFrame == [][ClaimFrame]_vars

\* A player holding cards has claimed pack 1.
C18_Witness ==
    /\ Succeeded(resp, "claim_pack")
    /\ resp.pack_index = 1
    /\ resp.deck # <<>>
    /\ ~packs_ready_rounds[current_round + 1][2]

\* ----------------------------------------------------------------------
PickActsOnAddressedRound ==
    resp'.op = "click" =>
        \A r \in ClickRequests :
            (/\ packs_rounds # <<>>
             /\ r[1] # ""
             /\ r[2] # 0
             /\ r[3] # None
             /\ click(r[1], r[2], r[3], r[4])) =>
                LET t == Addressed(r[4])
                    i == r[3][1]
                IN IF i \notin PackSlots(t)
                   THEN resp'.error = "Invalid pack index"
                   ELSE IF Count(packs_rounds[t + 1][i + 1], r[2]) = 0
                   THEN resp'.status = 404
                   ELSE /\ Succeeded(resp', "click")
                        /\ Count(packs_rounds'[t + 1][i + 1], r[2]) =
                              Count(packs_rounds[t + 1][i + 1], r[2]) - 1
                        /\ packs_ready_rounds'[t + 1][i + 1] \/ resp'.advanced
                        /\ \A q \in Materialized \ {t} : packs_rounds'[q + 1] = packs_rounds[q + 1]

ClaimActsOnAddressedRound ==
    resp'.op = "claim_pack" =>
        \A r \in ClaimRequests :
            (/\ packs_rounds # <<>>
             /\ r[1] # None
             /\ claim_pack(r[1], r[2], r[3])) =>
                LET t == Addressed(r[3])
                    i == r[1][1]
                IN IF i \notin PackSlots(t)
                   THEN resp'.error = "invalid pack_index"
                   ELSE IF ~packs_ready_rounds[t + 1][i + 1]
                   THEN resp'.status = 409
                   ELSE /\ Succeeded(resp', "claim_pack")
                        /\ ~packs_ready_rounds'[t + 1][i + 1]
                        /\ resp'.packs_ready = packs_ready_rounds'[t + 1]
                        /\ resp'.pack = packs_rounds[t + 1][i + 1]
                        /\ \A q \in Materialized \ {t} :
                              packs_ready_rounds'[q + 1] = packs_ready_rounds[q + 1]

\* C19 (target-round resolution): a pick or claim that supplies a round e
\* with 0 <= e < number of materialized rounds acts on round e, also when
\* e < current_round; in every other case (no round, a negative one, one not
\* yet materialized) it acts on round current_round.  The pack index is
\* checked against, the card looked up in and removed from, and the ready
\* flag tested and cleared in that round and no other.
C19_TargetRound == [][PickActsOnAddressedRound /\ ClaimActsOnAddressedRound]_vars

\* In round 1 a claim naming round 0 has taken a pack of round 0: the flags
\* it returned are those of round 0, not those of the current round.
C19_Witness ==
    /\ current_round = 1
    /\ Succeeded(resp, "claim_pack")
    /\ resp.packs_ready = packs_ready_rounds[1]
    /\ resp.packs_ready # packs_ready_rounds[2]

\* ----------------------------------------------------------------------
\* Worker t takes a step of a pick that is past its checks.
PickSteps(t) == threads[t].pc \in {"pop", "check"} /\ threads'[t] # threads[t]

OffRoundPickFrame ==
    \A t \in Threads :
        (PickSteps(t) /\ threads[t].target_round # current_round) =>
            /\ current_round' = current_round
            /\ Len(packs_rounds') = Len(packs_rounds)
            /\ EventCount(emitted', "round_advanced") = 0
            /\ EventCount(emitted', "draft_complete") = 0
            /\ n_draft_complete' = n_draft_complete
            /\ threads'[t].pc # "generate"
            /\ threads'[t].pc = "idle" => ~resp'.round_advanced

\* C20: a pick whose target round is not current_round when it is carried
\* out never changes current_round, never appends a round and never emits
\* round_advanced or draft_complete, even if it has emptied its round.
C20_OffRoundPickFrame == [][OffRoundPickFrame]_vars

\* A pick on round 0 has been answered, without a round advance, after
\* current_round had moved on to round 1: round 0 is empty and nothing has
\* been picked from round 1 yet.
C20_Witness ==
    /\ AllIdle
    /\ Succeeded(resp, "click")
    /\ ~resp.round_advanced
    /\ resp.current_round = 1
    /\ current_round = 1
    /\ Len(packs_rounds) = 2
    /\ Remaining(0) = 0
    /\ \A k \in Names : \A j \in 1..Len(picked_from[k]) : picked_from[k][j][1] = 0

\* ----------------------------------------------------------------------
AdvanceReportsNextSlot ==
    resp'.op = "click" /\ resp'.round_advanced =>
        \A r \in ClickRequests :
            click(r[1], r[2], r[3], r[4]) =>
                /\ resp'.advanced
                /\ resp'.current_round = current_round'
                /\ current_round' = current_round + 1
                /\ resp'.next_index = (r[3][1] + 1) % players_count[1]
                /\ resp'.next_index \in PackSlots(current_round)'
                /\ packs_ready_rounds'[current_round' + 1] =
                       Repeat(FALSE, players_count[1])

\* C21: a pick that advances the round reports advanced, round_advanced, the
\* new current_round and, as next index, (pack_index + 1) mod players_count
\* as a slot of the new round; no flag of the new round is consumed.
C21_AdvanceReport == [][AdvanceReportsNextSlot]_vars

\* ----------------------------------------------------------------------
\* What a snapshot taken when the operation has completed shows.
FinalSnapshot(event) == Snapshot(event, packs_rounds, packs_ready_rounds, current_round)

SnapshotEvents == {"refresh", "round_advanced", "draft_complete", "pick_made", "pack_claimed"}

\* C22: every snapshot event a start, pick or claim emits carries
\* current_round, the current round's packs and its ready flags as they are
\* when that operation completes.
C22_SnapshotsAreFinal ==
    \A i \in 1..Len(emitted) :
        emitted[i].event \in SnapshotEvents => emitted[i] = FinalSnapshot(emitted[i].event)

\* ----------------------------------------------------------------------
\* The 'go' messages among the events of a handler.
GoEvents(events) == SelectSeq(events, LAMBDA e : e.event = "go")

\* A start by host_go counts the sockets registered at that moment and sends
\* the socket at position i of the join order to pack i mod players_count.
HostGoAssigns ==
    \A rounds \in 1..MaxRounds :
        (host_go(rounds) /\ resp'.status = 200) =>
            LET n == Len(connected_sids)
                gos == GoEvents(emitted')
            IN /\ n > 0
               /\ players_count' = Some(n)
               /\ Len(packs_rounds'[1]) = n
               /\ Len(gos) = n
               /\ \A i \in 1..n :
                    /\ gos[i].to = connected_sids[i]
                    /\ gos[i].pack_index = (i - 1) % n
               /\ \A i, j \in 1..n : gos[i].pack_index = gos[j].pack_index => i = j
               /\ {gos[i].pack_index : i \in 1..n} = PackSlots(0)'

\* A socket that connects later is assigned nothing and is not counted.
LateConnectAssignsNothing ==
    \A sid \in Sids :
        on_connect(sid, PlayerOf(sid)) =>
            /\ GoEvents(emitted') = <<>>
            /\ UNCHANGED store

\* C23: at a start by host_go players_count is the number of registered
\* sockets, the socket at position i of the join order is assigned pack
\* i mod players_count, so that the assignments are pairwise distinct and
\* cover round 0; a socket that connects after the start is assigned no pack
\* and leaves players_count as it is.
C23_StartAssignment == [][HostGoAssigns /\ LateConnectAssignsNothing]_vars

\* Two sockets were registered at the start, and a socket has connected
\* since: the join order has changed, the session has not.
C23_Witness ==
    /\ resp.op = "go" /\ resp.status = 200
    /\ players_count = Some(2)
    /\ Len(packs_rounds[1]) = 2
    /\ connected_sids = <<2, 1>>
    /\ emitted = <<[event |-> "user_count", count |-> 2]>>
    /\ current_round = 0 /\ Remaining(0) = 2

\* ======================================================================
\* Sessions started with a set
\* ======================================================================
\* The sets a start names: one that exists and one that has no folders (the
\* start then falls back to the flat pool).
SetNames == {"s", "x"}

NextSet ==
    \/ \E set_name \in SetNames, players \in 1..MaxPlayers, rounds \in 1..MaxRounds :
          refresh_set(set_name, players, rounds)
    \/ \E r \in OneClientClicks : click(r[1], r[2], r[3], r[4])
    \/ \E r \in OneClientClaims : claim_pack(r[1], r[2], r[3])

SpecSet == Init /\ [][NextSet]_vars

\* ----------------------------------------------------------------------
\* The preselected list is the shuffled catalog repeated cyclically, exactly
\* players_count * TOTAL_ROUNDS long.
SelectionIsCyclicShuffle ==
    chosen_pack_folders # None =>
        LET chosen == chosen_pack_folders[1]
            catalog == list_pack_folders(chosen_set_name[1])
        IN /\ Len(chosen) = players_count[1] * TOTAL_ROUNDS
           /\ \E shuffled \in Shuffles(catalog) :
                \A i \in 1..Len(chosen) : chosen[i] = shuffled[((i - 1) % Len(catalog)) + 1]
           /\ \A f, g \in Range(catalog) : Count(chosen, f) - Count(chosen, g) \in {-1, 0, 1}

\* Every round was generated from its slice of the list.
RoundsAreSlices ==
    chosen_pack_folders # None =>
        LET chosen == chosen_pack_folders[1]
            n == players_count[1]
        IN \A r \in 0..(Len(gen_rounds) - 1) :
             /\ Len(gen_rounds[r + 1]) = n
             /\ \A i \in 1..n :
                  gen_rounds[r + 1][i] = load_pack_cards(chosen_set_name[1], chosen[r * n + i])

\* Only a start changes the list.
SelectionFixed == resp'.op \in {"click", "claim_pack"} => UNCHANGED selection

\* C24: a start with a set selects players_count * TOTAL_ROUNDS pack folders
\* once, as the shuffled catalog repeated cyclically; round r is generated
\* from positions [r * players_count, (r + 1) * players_count) of the list,
\* and no pick, claim or round advance changes the list.
C24_Preselection ==
    /\ [](SelectionIsCyclicShuffle /\ RoundsAreSlices)
    /\ [][SelectionFixed]_vars

\* A session of two players and two rounds over a catalog of three folders:
\* the list cycles, round 1 has been generated and picked from, and a pack
\* of it has been claimed.
C24_Witness ==
    /\ chosen_pack_folders # None
    /\ Len(chosen_pack_folders[1]) = 4
    /\ current_round = 1
    /\ Len(gen_rounds) = 2
    /\ DeckItemsFromRound(1) > 0
    /\ Succeeded(resp, "claim_pack")

\* ======================================================================
\* The fallback generator on its own
\* ======================================================================
\* The flat pools: cards.csv with 1..MaxPool rows of pairwise distinct names.
Pools == {[i \in 1..k |-> i] : k \in 1..MaxPool}

\* generate_round_packs(num_players, round_index) without a set, on a server
\* whose all_cards is `pool` and whose PACK_SIZE is `pack_size`.
fallback_generate(pool, num_players, pack_size) ==
    /\ \E shuffled \in Shuffles(pool) :
          generated' = [all_cards |-> pool, num_players |-> num_players,
                        pack_size |-> pack_size,
                        packs |-> FallbackPacksOf(shuffled, num_players, pack_size)]
    /\ UNCHANGED <<packs_rounds, packs_ready_rounds, current_round, TOTAL_ROUNDS,
                   players_count, decks_by_name, selection, held, presence, resp,
                   emitted, threads, history>>

NextGen ==
    \E pool \in Pools, num_players \in 1..(MaxPlayers + 1), pack_size \in 1..MaxPackSize :
        fallback_generate(pool, num_players, pack_size)

SpecGen == Init /\ [][NextGen]_vars

\* ----------------------------------------------------------------------
\* C25: for every non-empty pool and every number of players the fallback
\* generator returns num_players packs of exactly PACK_SIZE items each; no
\* pack is empty or short.
C25_FullPacks ==
    generated # NoCall =>
        /\ Len(generated.packs) = generated.num_players
        /\ \A i \in 1..Len(generated.packs) : Len(generated.packs[i]) = generated.pack_size

\* C26: given a pool of pairwise distinct names, no generated pack holds two
\* items of the same name.
C26_NoDuplicateInPack ==
    \A p \in 1..Len(generated.packs) :
        \A i, j \in 1..Len(generated.packs[p]) :
            generated.packs[p][i] = generated.packs[p][j] => i = j

\* ======================================================================
\* A caller that keeps the snapshot
\* ======================================================================
\* snapshot = _current_round_snapshot() (line 135): the caller holds the
\* returned dict while the handlers go on.  One caller is followed: it takes
\* one snapshot and keeps it.
current_round_snapshot ==
    LET taken == Snapshot("snapshot", packs_rounds, packs_ready_rounds, current_round)
    IN /\ held.ref = "none"
       /\ held' = IF packs_rounds = <<>> \/ current_round >= Len(packs_rounds)
                  THEN [ref |-> "detached", round |-> 0, taken |-> taken, frozen |-> taken]
                  ELSE [ref |-> "live", round |-> current_round, taken |-> taken,
                        frozen |-> taken]
       /\ UNCHANGED <<packs_rounds, packs_ready_rounds, current_round, TOTAL_ROUNDS,
                      players_count, decks_by_name, selection, generated, presence,
                      resp, emitted, threads, history>>

NextSnap ==
    \/ current_round_snapshot
    \/ \E players \in 1..MaxPlayers, rounds \in 1..MaxRounds : refresh(players, rounds)
    \/ \E r \in OneClientClicks : click(r[1], r[2], r[3], r[4])
    \/ \E r \in OneClientClaims : claim_pack(r[1], r[2], r[3])

SpecSnap == Init /\ [][NextSnap]_vars

\* ----------------------------------------------------------------------
\* C27: reading the snapshot changes nothing in the store, and the value
\* returned keeps showing the packs and ready flags of the moment it was
\* taken, whatever pick, claim or start follows.
C27_SnapshotIsCopy ==
    /\ held.ref # "none" => Shows(held) = held.taken

\* ----------------------------------------------------------------------
NoClaimAfterCompleted ==
    (Completed /\ resp'.op = "claim_pack") =>
        /\ ~Succeeded(resp', "claim_pack")
        /\ UNCHANGED packs_ready_rounds

\* C28: once every pack of round TOTAL_ROUNDS - 1 is exhausted no claim
\* succeeds and no claim changes a ready flag.
C28_NoClaimAfterCompleted == [][NoClaimAfterCompleted]_vars

\* ----------------------------------------------------------------------
\* The pack without its first item of that name.
WithoutFirst(pack, card_name) ==
    LET hits == {i \in 1..Len(pack) : pack[i] = card_name}
        first == CHOOSE i \in hits : \A j \in hits : i <= j
    IN [k \in 1..(Len(pack) - 1) |-> IF k < first THEN pack[k] ELSE pack[k + 1]]

SuccessfulPickFrame ==
    (resp'.op = "click" /\ resp'.status = 200 /\ resp'.error = "") =>
        \A r \in OneClientClicks :
            click(r[1], r[2], r[3], r[4]) =>
                LET t == current_round
                    p == r[3][1]
                IN /\ packs_rounds'[t + 1][p + 1] =
                          WithoutFirst(packs_rounds[t + 1][p + 1], r[2])
                   /\ decks_by_name'[r[1]] = Append(decks_by_name[r[1]], r[2])
                   /\ \A k \in Names \ {r[1]} : decks_by_name'[k] = decks_by_name[k]
                   /\ \A q \in Materialized : \A i \in PackSlots(q) :
                        /\ <<q, i>> # <<t, p>> =>
                               packs_rounds'[q + 1][i + 1] = packs_rounds[q + 1][i + 1]
                        /\ Len(packs_rounds'[q + 1][i + 1]) <= Len(packs_rounds[q + 1][i + 1])

\* C29: a successful pick removes exactly the first item of the requested
\* name from the addressed pack and appends it at the end of the caller's
\* deck; every other pack of every round and every other deck is unchanged,
\* the order of the remaining items is kept and no pack grows.
C29_PickFrame == [][SuccessfulPickFrame]_vars

\* The first of two items of the same name has been picked from a pack of
\* three: the items left are the second and third, in their order.
C29_Witness ==
    /\ Succeeded(resp, "click")
    /\ resp.deck # <<>> /\ resp.deck[Len(resp.deck)] = 1
    /\ \E q \in Materialized : \E i \in PackSlots(q) :
          /\ gen_rounds[q + 1][i + 1] = <<1, 2, 1>>
          /\ packs_rounds[q + 1][i + 1] = <<2, 1>>

\* ----------------------------------------------------------------------
\* A worker that pops appends a card of the name its request asked for.
PoppedCardIsRequested ==
    \A t \in Threads :
        (threads[t].pc = "pop" /\ threads'[t].pc = "check") =>
            LET deck == decks_by_name'[threads[t].player_name]
            IN deck[Len(deck)] = threads[t].card_name

\* A pick that loses the race for a card is answered 'Card not found'.
LostRaceIsNotFound ==
    \A t \in Threads :
        (threads[t].pc = "pop" /\ threads'[t].pc = "idle") =>
            /\ resp'.status = 404
            /\ resp'.error = "Card not found in specified pack"

\* C30: under concurrent picks on one pack the item a pick removes and
\* appends always has the name the caller asked for, and of two picks that
\* name the same single item at most one succeeds, the other failing with
\* 'Card not found'.
C30_ConcurrentPicksByName == [][PoppedCardIsRequested /\ LostRaceIsNotFound]_vars

\* ----------------------------------------------------------------------
\* A claim that is answered 200 clears a flag that is raised when it clears it.
ClaimConsumesRaisedFlag ==
    \A t \in Threads :
        (threads[t].pc = "claim" /\ threads'[t].pc = "idle") =>
            packs_ready_rounds[threads[t].target_round + 1][threads[t].pack_index + 1]

\* C31: a raised ready flag is delivered to at most one consumer: of two
\* claims, or a claim and the hand-off of a pick on the preceding pack, that
\* run concurrently for the same flag, at most one consumes it.
C31_FlagConsumedOnce == [][ClaimConsumesRaisedFlag]_vars

\* ======================================================================
\* A start while a pick is in flight
\* ======================================================================
\* The references of a worker in flight after a start: the lists it holds are
\* no longer lists of packs_rounds.
Detach(w) ==
    IF w.pc = "idle" \/ w.detached THEN w
    ELSE [w EXCEPT !.detached = TRUE,
                   !.round_packs = packs_rounds[w.target_round + 1],
                   !.round_ready = packs_ready_rounds[w.target_round + 1]]

\* POST /refresh served while picks are in flight (lines 482-490).
restart(players, rounds) ==
    /\ players * rounds <= MaxPacks
    /\ StartSession(None, players, rounds, <<>>)
    /\ resp' = [NoResp EXCEPT !.op = "refresh", !.status = 200]
    /\ threads' = [t \in Threads |-> Detach(threads[t])]
    /\ UNCHANGED presence

\* click, lines 345-349, on the lists of the superseded session: the card is
\* popped from the worker's current_pack and appended to the deck of
\* decks_by_name, which the start has emptied but not replaced.
click_pop_detached(t) ==
    LET w == threads[t]
        current_pack == w.round_packs[w.pack_index + 1]
    IN /\ w.pc = "pop" /\ w.detached
       /\ emitted' = <<>>
       /\ decks_by_name' = DeckAppend(decks_by_name, w.player_name,
                                      current_pack[w.card_index])
       /\ picked_from' = [picked_from EXCEPT
                             ![w.player_name] = Append(@, <<w.target_round, w.pack_index>>)]
       /\ Goto(t, [w EXCEPT !.pc = "check",
                            !.round_packs[w.pack_index + 1] =
                                PopCard(current_pack, w.card_index),
                            !.round_ready[w.pack_index + 1] = TRUE])
       /\ UNCHANGED <<packs_rounds, packs_ready_rounds, current_round, TOTAL_ROUNDS,
                      players_count, selection, generated, held, presence, resp,
                      gen_rounds, n_draft_complete>>
       /\ handed' = Picked(handed, w.player_name, w.target_round, w.pack_index)

\* click, lines 352-407, on the lists of the superseded session: the test of
\* line 355 reads the worker's round_packs, the round it generates is
\* appended to the packs_rounds of the new session, and the hand-off of
\* lines 380-382 writes the worker's round_ready.
click_finish_detached(t) ==
    LET w == threads[t]
        all_empty == InAuthoritativeRound(w.target_round) /\ AllEmpty(w.round_packs)
        next_round_index == current_round + 1
        round_advanced == all_empty /\ HasNextRound(next_round_index)
        draft_complete == all_empty /\ ~HasNextRound(next_round_index)
        next_index == NextIndex(w.pack_index, w.round_packs)
    IN /\ w.pc = "check" /\ w.detached
       /\ \E next_round_packs \in
              (IF round_advanced
               THEN GenerateRound(chosen_pack_folders, NumPlayers, next_round_index,
                                  chosen_set_name)
               ELSE {<<>>}) :
            LET packs2 == IF round_advanced
                          THEN Append(packs_rounds, next_round_packs) ELSE packs_rounds
                ready2 == IF round_advanced
                          THEN Append(packs_ready_rounds, Repeat(FALSE, NumPlayers))
                          ELSE packs_ready_rounds
                cur2 == IF round_advanced THEN AdvanceTo(next_round_index) ELSE current_round
                consume == ~round_advanced /\ w.round_ready[next_index + 1]
                into_new == /\ round_advanced
                            /\ cur2 < Len(packs2)
                            /\ Len(packs2[cur2 + 1]) > 0
                final_index == IF into_new THEN w.pack_index % Len(packs2[cur2 + 1])
                               ELSE next_index
            IN /\ packs_rounds' = packs2
               /\ packs_ready_rounds' = ready2
               /\ current_round' = cur2
               /\ gen_rounds' = IF round_advanced
                                THEN Append(gen_rounds, next_round_packs) ELSE gen_rounds
               /\ emitted' =
                    (IF round_advanced
                     THEN <<Snapshot("round_advanced", packs2, ready2, cur2)>>
                     ELSE IF draft_complete
                     THEN <<Snapshot("draft_complete", packs_rounds, packs_ready_rounds,
                                     current_round)>>
                     ELSE <<>>)
                    \o <<Snapshot("pick_made", packs2, ready2, cur2)>>
               /\ resp' = [NoResp EXCEPT !.op = "click", !.status = 200,
                              !.advanced = consume \/ into_new,
                              !.next_index = final_index,
                              !.round_advanced = round_advanced,
                              !.current_round = cur2,
                              !.deck = DeckOf(decks_by_name, w.player_name)]
               /\ handed' = Hand(w.player_name, TRUE, w.target_round, w.pack_index,
                                  consume \/ into_new, final_index)
       /\ n_draft_complete' = n_draft_complete + (IF draft_complete THEN 1 ELSE 0)
       /\ Goto(t, Idle)
       /\ UNCHANGED <<TOTAL_ROUNDS, players_count, selection, generated, held,
                      decks_by_name, presence, picked_from>>

\* One worker serves picks; a start may be served at any moment.
NextRestart ==
    \/ \E players \in 1..MaxPlayers, rounds \in 1..MaxRounds : restart(players, rounds)
    \/ \E r \in ClicksOf(1) : click_begin(1, r[1], r[2], r[3], r[4])
    \/ ~threads[1].detached /\ click_pop(1)
    \/ ~threads[1].detached /\ click_check(1)
    \/ ~threads[1].detached /\ click_generate(1)
    \/ click_pop_detached(1)
    \/ click_finish_detached(1)

SpecRestart == Init /\ [][NextRestart]_vars

\* ----------------------------------------------------------------------
\* Items missing from the packs of the live session.
ItemsMissing ==
    SumSeq([r \in 1..Len(packs_rounds) |-> Generated(r - 1) - Remaining(r - 1)])

\* C32: when a start runs concurrently with a pick, then after both have
\* completed no deck holds an item of the superseded session: the decks hold
\* exactly as many items as are missing from the packs of the live session.
C32_NothingOfSupersededSession ==
    (AllIdle /\ Len(gen_rounds) = Len(packs_rounds)) =>
        Cardinality(DeckPositions) = ItemsMissing

\* ----------------------------------------------------------------------
\* Every round before current_round has been emptied.
EarlierRoundsEmpty ==
    \A r \in Materialized : r < current_round => AllPacksEmpty(packs_rounds[r + 1])

\* The well-formed picks that name a round before current_round.
EarlierRoundPicks ==
    {r \in ClickRequests :
        /\ r[1] # "" /\ r[2] # 0 /\ r[3] # None /\ r[4] # None
        /\ r[4][1] \in Materialized
        /\ r[4][1] < current_round
        /\ r[3][1] \in PackSlots(r[4][1])}

EarlierRoundPickFails ==
    (current_round > 0 /\ resp'.op = "click") =>
        \A r \in EarlierRoundPicks :
            click(r[1], r[2], r[3], r[4]) =>
                /\ resp' = ErrorResp("click", 404, "Card not found in specified pack")
                /\ emitted' = <<>>
                /\ SessionUnchanged
                /\ UNCHANGED history

\* C34: in serial execution every round with an index below current_round
\* has all of its packs empty, and so a pick that names such a round through
\* its round field is answered "Card not found" and changes nothing.
C34_EarlierRoundsExhausted == []EarlierRoundsEmpty /\ [][EarlierRoundPickFails]_vars

\* A pick has been answered "not found" while round 0 lies behind
\* current_round and nothing has been picked from round 1, whose packs each
\* hold a different card: the pick named a card that round 1 offers at
\* another slot or named round 0.
C34_Witness ==
    /\ current_round = 1
    /\ EarlierRoundsEmpty
    /\ Remaining(1) = Generated(1)
    /\ resp = ErrorResp("click", 404, "Card not found in specified pack")
    /\ EarlierRoundPicks # {}

\* ----------------------------------------------------------------------
\* Participants that follow the protocol.  The browser client is not part of
\* the sources; what it does is taken from the answers the server gives it:
\* a participant starts on the pack its 'go' message assigns, picks a card
\* the pack it holds shows, moves to next_pack_index when the answer says
\* advanced, and otherwise claims the pack named by waiting_on until the
\* claim succeeds.  Each request is served as a whole before the next.
Holds(k) == handed[k] # None /\ handed[k][1].holds

WaitsOn(k) == handed[k] # None /\ ~handed[k][1].holds

HeldPack(k) == packs_rounds[current_round + 1][handed[k][1].pack + 1]

protocol_pick(k) ==
    /\ Holds(k)
    /\ \E card_name \in Range(HeldPack(k)) :
          click(k, card_name, Some(handed[k][1].pack), None)

protocol_claim(k) ==
    /\ WaitsOn(k)
    /\ claim_pack(Some(handed[k][1].pack), k, None)

ProtocolSets == {"s", "t"}

\* One draft: the sockets connect, the host starts once, with or without a
\* set, and the participants play.
NextProtocol ==
    \/ \E sid \in Sids : on_connect(sid, PlayerOf(sid))
    \/ \E rounds \in 1..MaxRounds : packs_rounds = <<>> /\ host_go(rounds)
    \/ \E set_name \in ProtocolSets, rounds \in 1..MaxRounds :
          packs_rounds = <<>> /\ host_go_set(set_name, rounds)
    \/ \E k \in Names : protocol_pick(k)
    \/ \E k \in Names : protocol_claim(k)

SpecProtocol == Init /\ [][NextProtocol]_vars

\* A participant that can pick or claim eventually does.
ParticipantsAct ==
    \A k \in Names : WF_vars(protocol_pick(k)) /\ WF_vars(protocol_claim(k))

SpecProtocolFair == SpecProtocol /\ ParticipantsAct

\* A session of at least two participants, all of them following the protocol.
ProtocolSession ==
    /\ players_count # None
    /\ NumPlayers >= 2
    /\ Cardinality({k \in Names : handed[k] # None}) = NumPlayers

\* In this step participant k picks from a pack whose latest pick was its own.
PicksAgain(k) ==
    /\ handed[k] # None
    /\ Len(picked_from'[k]) = Len(picked_from[k]) + 1
    /\ picked_from'[k][Len(picked_from'[k])] \in handed[k][1].last

NoPickAfterOwnPick ==
    ProtocolSession => \A k \in Names : ~PicksAgain(k)

\* C35 (round-robin passing): with at least two participants that follow the
\* protocol, no participant makes two consecutive picks on the same pack:
\* between two picks of one participant on a pack another participant has
\* picked from it, so no participant consumes the hand-off flag its own pick
\* raised.
C35_RoundRobin == [][NoPickAfterOwnPick]_vars

\* ----------------------------------------------------------------------
\* Every pack of the only round is empty and draft_complete has been emitted.
Exhausted ==
    /\ packs_rounds # <<>>
    /\ AllPacksEmpty(packs_rounds[1])
    /\ n_draft_complete > 0

\* C33 (liveness, TOTAL_ROUNDS = 1, at least two participants, packs that are
\* not empty at the start): if every participant follows the protocol and
\* every participant that can pick or claim eventually does, every pack is
\* eventually exhausted and draft_complete is emitted; no items stay in a
\* pack that nobody can ever pick from.
C33_DraftCompletes == [](ProtocolSession /\ TOTAL_ROUNDS = 1 => <>Exhausted)

====
